---- MODULE Spec2Model ----
(***************************************************************************)
(* State-machine model of the MCP gateway of glyfo/hello-world-mcp-server: *)
(* the auth gate in front of the MyMCP Durable Object, the sendEmail       *)
(* handlers (MCP tool, ImageEnhancementWorker, EmailWorker) and the        *)
(* generateImage / prompt-enhancement workers.                             *)
(*                                                                         *)
(* User-supplied strings on which the code does character work (trim,      *)
(* includes, split, regex test) are sequences of one-character strings.    *)
(* Fixed texts of the code and provider-issued texts are TLA+ strings.     *)
(* A JavaScript value that may be undefined is a record with a tag t.      *)
(***************************************************************************)
EXTENDS Integers, Sequences, FiniteSets, TLC

VARIABLES env, conns, actors, mail, img

vars == <<env, conns, actors, mail, img>>

----------------------------------------------------------------------------
(* JavaScript string built-ins used by the handlers *)

WhiteSpace == {" ", "\t"}

RECURSIVE trimStart(_)
trimStart(s) ==
  IF Len(s) = 0 THEN s
  ELSE IF s[1] \in WhiteSpace THEN trimStart(Tail(s)) ELSE s

RECURSIVE trimEnd(_)
trimEnd(s) ==
  IF Len(s) = 0 THEN s
  ELSE IF s[Len(s)] \in WhiteSpace THEN trimEnd(SubSeq(s, 1, Len(s) - 1)) ELSE s

trimOnce(s) ==
  LET a == IF Len(s) > 0 /\ s[1] \in WhiteSpace THEN Tail(s) ELSE s
  IN IF Len(a) > 0 /\ a[Len(a)] \in WhiteSpace THEN SubSeq(a, 1, Len(a) - 1) ELSE a

\* String.prototype.trim
trim(s) == trimEnd(trimStart(s))

\* String.prototype.includes
includes(s, sub) ==
  \E i \in 1..(Len(s) - Len(sub) + 1) : SubSeq(s, i, i + Len(sub) - 1) = sub

\* String.prototype.indexOf for a one-character needle: 0-based, -1 when absent
indexOf(s, c) ==
  IF \E i \in 1..Len(s) : s[i] = c
  THEN (CHOOSE i \in 1..Len(s) : s[i] = c /\ \A j \in 1..(i - 1) : s[j] # c) - 1
  ELSE -1

\* String.prototype.split for a one-character separator
RECURSIVE split(_, _)
split(s, c) ==
  LET k == indexOf(s, c)
  IN IF k = -1 THEN <<s>>
     ELSE <<SubSeq(s, 1, k)>> \o split(SubSeq(s, k + 2, Len(s)), c)

UpperCase ==
  <<"A", "B", "C", "D", "E", "F", "G", "H", "I", "J", "K", "L", "M",
    "N", "O", "P", "Q", "R", "S", "T", "U", "V", "W", "X", "Y", "Z">>
LowerCase ==
  <<"a", "b", "c", "d", "e", "f", "g", "h", "i", "j", "k", "l", "m",
    "n", "o", "p", "q", "r", "s", "t", "u", "v", "w", "x", "y", "z">>

\* String.prototype.toLowerCase, which is how the /i flag compares letters
toLowerCase(s) ==
  [i \in 1..Len(s) |->
     IF \E n \in 1..Len(UpperCase) : UpperCase[n] = s[i]
     THEN LowerCase[CHOOSE n \in 1..Len(UpperCase) : UpperCase[n] = s[i]]
     ELSE s[i]]

Rep(c, n) == [i \in 1..n |-> c]

\* JavaScript values that may be undefined
Undefined == [t |-> "undefined", v |-> <<>>]
Str(s) == [t |-> "string", v |-> s]
Arr(a) == [t |-> "array", v |-> a]

\* ToBoolean: undefined and "" are falsy, every array is truthy
truthy(x) ==
  CASE x.t = "undefined" -> FALSE
    [] x.t = "string" -> Len(x.v) > 0
    [] OTHER -> TRUE

\* x?.trim() || dflt
trimOr(x, dflt) ==
  IF x.t = "string" /\ Len(trim(x.v)) > 0 THEN trim(x.v) ELSE dflt

\* x || dflt
valueOr(x, dflt) == IF truthy(x) THEN x.v ELSE dflt

----------------------------------------------------------------------------
(* Bounds of the model *)

\* connections one behaviour makes
MaxConns == 3

\* tool calls one behaviour dispatches to the Session Actors
MaxCalls == 2

----------------------------------------------------------------------------
(* Environment bindings (wrangler configuration), read-only *)

KeyValues == {Undefined, Str(<<>>), Str(<<"r", "e", "_", "1">>)}

EnvValues == [RESEND_API_KEY : KeyValues, AI : BOOLEAN]

----------------------------------------------------------------------------
(* Auth gate and Session Actor (MyMCP Durable Object) *)

\* req.headers.get("authorization"): null when the header is missing
NoHeader == [present |-> FALSE, v |-> ""]
Header(v) == [present |-> TRUE, v |-> v]

HeaderValues ==
  {NoHeader, Header(""), Header("Bearer t1"), Header("Bearer t2"), Header("garbage")}

NoProps == [has |-> FALSE, bearerToken |-> ""]

PropsDroppedToken(h) == [has |-> TRUE, bearerToken |-> ""]

\* { bearerToken: authHeader }
Props(h) == [has |-> TRUE, bearerToken |-> h.v]

\* names under which the Durable Object namespace resolves an instance:
\* the fixed name of the /sse* route, and the per-session names MyMCP.mount picks
FixedKey == "mcp-agent-instance"
MountKeys == {"sse:session-1", "sse:session-2"}
SessionKeys == {FixedKey} \cup MountKeys

ToolNamesWithImage == {"sendEmail", "generateImage"}

\* the names init passes to this.server.tool
ToolNames == {"sendEmail"}

\* instances: objects constructed for the name so far; inits: runs of init on
\* the current instance; calls: the tool calls dispatched to it
NoActor == [constructed |-> FALSE, ready |-> FALSE, tools |-> {}, props |-> NoProps,
            requests |-> 0, instances |-> 0, inits |-> 0, calls |-> <<>>]

initNotReady(a) == [a EXCEPT !.tools = a.tools \cup ToolNames, !.inits = a.inits + 1]

\* MyMCP.init: registers the sendEmail tool
init(a) ==
  [a EXCEPT !.ready = TRUE, !.tools = a.tools \cup ToolNames, !.inits = a.inits + 1]

\* new MyMCP(state, env, ctx)
Construct(a) == [a EXCEPT !.constructed = TRUE, !.instances = a.instances + 1]

ResolveNewInstance(k, p) ==
  LET a == actors[k]
      b == init(Construct([NoActor EXCEPT !.instances = a.instances]))
  IN [actors EXCEPT ![k] = [b EXCEPT !.props = p, !.requests = a.requests + 1]]

\* The Durable Object for key k handles one request carrying props p: the
\* instance is constructed and initialised on first resolution.
Resolve(k, p) ==
  LET a == actors[k]
      b == IF a.constructed THEN a ELSE init(Construct(a))
  IN [actors EXCEPT ![k] = [b EXCEPT !.props = p, !.requests = a.requests + 1]]

Rejected(g, h) ==
  [gate |-> g, header |-> h, status |-> 401, body |-> "Unauthorized",
   key |-> "", props |-> NoProps]

Forwarded(g, h, k, p) ==
  [gate |-> g, header |-> h, status |-> 200, body |-> "", key |-> k, props |-> p]

\* logger.info / logger.warn: the message and JSON.stringify(data), the
\* headers of data kept apart; request ids and durations, which come from
\* crypto.randomUUID and Date.now, are left out of the message
Info(message, data, headers) ==
  [level |-> "INFO", message |-> message, data |-> data, headers |-> headers]
Warn(message, data, headers) ==
  [level |-> "WARN", message |-> message, data |-> data, headers |-> headers]

AuthorizationName ==
  <<"a", "u", "t", "h", "o", "r", "i", "z", "a", "t", "i", "o", "n">>
UserAgentName == <<"u", "s", "e", "r", "-", "a", "g", "e", "n", "t">>

\* request.headers.entries() of a client request
RequestHeaders(h) ==
  {<<UserAgentName, "mcp-client">>}
    \cup (IF h.present THEN {<<AuthorizationName, h.v>>} ELSE {})

LoggedHeadersAll(hs) == hs

\* .filter(([key]) => !key.toLowerCase().includes('authorization'))
LoggedHeaders(hs) == {x \in hs : ~includes(toLowerCase(x[1]), AuthorizationName)}

StatusText(n) == IF n = 401 THEN "401" ELSE "200"

\* export default fetch and the app.use('*') middleware before next()
EntryLog ==
  <<Info("Worker received request", {<<"url", "/sse">>, <<"method", "GET">>}, {}),
    Info("HTTP Request started",
         {<<"method", "GET">>, <<"path", "/sse">>, <<"userAgent", "mcp-client">>}, {})>>

\* the middleware after next()
ExitLog(status) == <<Info("HTTP Request completed", {<<"status", StatusText(status)>>}, {})>>

\* the gate's own record
GateLog(h) ==
  IF ~h.present \/ h.v = ""
  THEN <<Warn("Unauthorized request rejected - missing authorization header", {}, {})>>
  ELSE <<Info("Request authorized, mounting MCP agent", {}, {})>>

\* hasResendKey as the constructor computes it (g: "mount" for src/index.ts,
\* "sse" for the variant with the /sse* route)
HasResendKey(g, e) ==
  IF g = "mount" THEN truthy(e.RESEND_API_KEY)
  ELSE e.RESEND_API_KEY.t = "string" /\ Len(trim(e.RESEND_API_KEY.v)) > 0

\* constructor and init of MyMCP
ConstructLog(g, k, e) ==
  <<Info("MyMCP Durable Object constructed",
         {<<"objectId", k>>,
          <<"hasResendKey", IF HasResendKey(g, e) THEN "true" ELSE "false">>}, {})>>
    \o (IF g = "sse" /\ ~HasResendKey(g, e)
        THEN <<Warn("RESEND_API_KEY is missing or empty - email functionality may not work",
                    {}, {})>>
        ELSE <<>>)
    \o <<Info("Initializing MyMCP server", {}, {}),
         Info("MyMCP server initialization complete", {}, {})>>

\* MyMCP.fetch around super.fetch
ActorFetchLog(h) ==
  <<Info("Handling request", {<<"method", "GET">>, <<"path", "/sse">>},
         LoggedHeaders(RequestHeaders(h))),
    Info("Request completed", {<<"status", "200">>}, {})>>

\* everything one request writes to the log; constructs: the request is the
\* first that resolves the actor
RequestLog(g, h, k, constructs, e) ==
  EntryLog \o GateLog(h)
    \o (IF ~h.present \/ h.v = "" THEN ExitLog(401)
        ELSE (IF constructs THEN ConstructLog(g, k, e) ELSE <<>>)
               \o ActorFetchLog(h) \o ExitLog(200))

\* a handled request together with what it logged
Logged(c, constructs, l) ==
  [gate |-> c.gate, header |-> c.header, status |-> c.status, body |-> c.body,
   key |-> c.key, props |-> c.props, constructs |-> constructs, log |-> l]

GateOnlyNull(h) == ~h.present

\* the gate's test of the header: if (!authHeader) return 401
GateRejects(h) == ~h.present \/ h.v = ""

\* app.mount("/", (req, env, ctx) => ...) of src/index.ts
MountConnect(h, k) ==
  /\ Len(conns) < MaxConns
  /\ IF GateRejects(h)
     THEN /\ conns' = Append(conns, Logged(Rejected("mount", h), FALSE,
                                            RequestLog("mount", h, "", FALSE, env)))
          /\ UNCHANGED actors
     ELSE /\ conns' = Append(conns, Logged(Forwarded("mount", h, k, Props(h)),
                                            ~actors[k].constructed,
                                            RequestLog("mount", h, k, ~actors[k].constructed,
                                                       env)))
          /\ actors' = Resolve(k, Props(h))
  /\ UNCHANGED <<env, mail, img>>

\* app.all("/sse*", async (c) => ...) 
SseConnect(h) ==
  /\ Len(conns) < MaxConns
  /\ IF GateRejects(h)
     THEN /\ conns' = Append(conns, Logged(Rejected("sse", h), FALSE,
                                            RequestLog("sse", h, "", FALSE, env)))
          /\ UNCHANGED actors
     ELSE /\ conns' = Append(conns, Logged(Forwarded("sse", h, FixedKey, Props(h)),
                                            ~actors[FixedKey].constructed,
                                            RequestLog("sse", h, FixedKey,
                                                       ~actors[FixedKey].constructed, env)))
          /\ actors' = Resolve(FixedKey, Props(h))
  /\ UNCHANGED <<env, mail, img>>

----------------------------------------------------------------------------
(* Email: inputs, provider double, responses *)

Letters ==
  {"a", "b", "c", "d", "e", "f", "g", "h", "i", "j", "k", "l", "m", "n", "o", "p",
   "q", "r", "s", "t", "u", "v", "w", "x", "y", "z"}
Digits == {"0", "1", "2", "3", "4", "5", "6", "7", "8", "9"}

GoodAddr == <<"a", "@", "b", ".", "c", "o", "m">>
PaddedAddr == <<" ", "a", "@", "b", ".", "c", "o", "m", " ">>
NotAnEmail == <<"n", "o", "t", "-", "a", "n", "-", "e", "m", "a", "i", "l">>
AtDot == <<"@", ".">>
NoDotAddr == <<"a", "@", "b">>
TwoAtAddr == <<"a", "@", "b", ".", "c", "@", "d">>
Blank == <<" ", " ">>

ToInputs ==
  {Undefined, Str(<<>>), Str(Blank), Str(GoodAddr), Str(PaddedAddr), Str(NotAnEmail),
   Str(AtDot), Str(NoDotAddr), Str(TwoAtAddr),
   Arr(<<>>), Arr(<<<<>>, Blank>>), Arr(<<PaddedAddr, <<>>>>), Arr(<<NotAnEmail>>)}

SubjectInputs == {Undefined, Str(Blank), Str(<<" ", "H", "i", " ">>)}
BodyInputs == {Str(<<>>), Str(<<"t", "e", "s", "t">>)}
HtmlInputs == {Undefined, Str(<<"<", "p", ">", "x", "<", "/", "p", ">">>)}
FromInputs == {Undefined, Str(<<" ", " ", "m", "e", "@", "x", ".", "i", "o", " ">>)}

\* htmlBody and from are either both left out or both given
ParamsInputs ==
  {[to |-> t, subject |-> s, body |-> b, htmlBody |-> x[1], from |-> x[2]] :
     t \in ToInputs, s \in SubjectInputs, b \in BodyInputs,
     x \in {y \in HtmlInputs \X FromInputs : y[1].t = y[2].t}}

NoParams ==
  [to |-> Undefined, subject |-> Undefined, body |-> Undefined,
   htmlBody |-> Undefined, from |-> Undefined]

\* literals of the handlers
HelloExample == <<"h", "e", "l", "l", "o", "@", "e", "x", "a", "m", "p", "l", "e", ".", "c", "o", "m">>
NoReplyGlyfo == <<"n", "o", "r", "e", "p", "l", "y", "@", "s", "e", "n", "d", ".", "g", "l", "y", "f", "o", ".", "c", "o", "m">>
AlexGlyfo == <<"a", "l", "e", "x", "@", "g", "l", "y", "f", "o", ".", "c", "o", "m">>
NoSubject == <<"N", "o", " ", "S", "u", "b", "j", "e", "c", "t">>

\* what resend.emails.send can do: resolve to {data, error}, resolve to nothing,
\* or throw (an Error, or a value that is no Error)
NoDataV == [isNull |-> TRUE, hasId |-> FALSE, id |-> ""]
DataWithId(i) == [isNull |-> FALSE, hasId |-> TRUE, id |-> i]
DataNoId == [isNull |-> FALSE, hasId |-> FALSE, id |-> ""]
NoErrorV == [isNull |-> TRUE, message |-> ""]
ErrorV(m) == [isNull |-> FALSE, message |-> m]

Returns(d, e) == [k |-> "return", data |-> d, error |-> e, message |-> ""]
ReturnsNothing == [k |-> "returnNothing", data |-> NoDataV, error |-> NoErrorV, message |-> ""]
ThrowsError(m) == [k |-> "throwError", data |-> NoDataV, error |-> NoErrorV, message |-> m]
ThrowsValue(m) == [k |-> "throwValue", data |-> NoDataV, error |-> NoErrorV, message |-> m]

ProviderOutcomes ==
  {Returns(DataWithId("msg_123"), NoErrorV), Returns(DataNoId, NoErrorV),
   Returns(NoDataV, NoErrorV), Returns(NoDataV, ErrorV("rate limited")),
   Returns(NoDataV, ErrorV("")), ReturnsNothing,
   ThrowsError("fetch failed"), ThrowsValue("boom")}

NoOutcome == [k |-> "none", data |-> NoDataV, error |-> NoErrorV, message |-> ""]

\* the options object handed to resend.emails.send
Options(from, to, subject, text, html) ==
  [from |-> from, to |-> to, subject |-> subject, text |-> text, html |-> html]

\* results: a tool envelope, an HTTP Response of a worker method, or the
\* rejection of the arguments by the tool's declared schema
NoResult ==
  [shape |-> "none", status |-> 0, content |-> <<>>, plain |-> "", success |-> "",
   error |-> "", details |-> "", data |-> NoDataV, issues |-> {}]

\* { content: [{ type: "text", text }] }
Envelope(text) ==
  [NoResult EXCEPT !.shape = "envelope",
                   !.content = << [type |-> "text", text |-> text] >>]

\* new Response(JSON.stringify({ error, details }), { status })
ErrorResponse(status, error, details) ==
  [NoResult EXCEPT !.shape = "response", !.status = status, !.error = error,
                   !.details = details]

\* new Response(JSON.stringify({ success: true, data }), { status: 200 })
SuccessResponse(data) ==
  [NoResult EXCEPT !.shape = "response", !.status = 200, !.success = "true",
                   !.data = data]

\* the arguments fail the declared schema: the handler is not invoked
SchemaError(issues) ==
  [NoResult EXCEPT !.shape = "schemaError", !.issues = issues]

\* an exception that leaves the handler
Escaped(message) ==
  [NoResult EXCEPT !.shape = "exception", !.error = message]

\* new Response(text, { status })
PlainResponse(status, text) ==
  [NoResult EXCEPT !.shape = "response", !.status = status, !.plain = text]

\* EmailWorker.errorResponse(message, status)
errorResponse(message, status) ==
  [NoResult EXCEPT !.shape = "response", !.status = status, !.success = "false",
                   !.error = message]

\* a handler either finishes before the provider is called, or calls send
Finished(r) == [done |-> TRUE, result |-> r, options |-> <<>>]
Sends(o) == [done |-> FALSE, result |-> NoResult, options |-> <<o>>]

\* message of the TypeError raised by reading a property of undefined
TypeErrorMessage == "Cannot read properties of undefined"

textOrGeneric(m, dflt) == dflt

\* message || dflt, for a provider-issued text
textOr(m, dflt) == IF m = "" THEN dflt ELSE m

----------------------------------------------------------------------------
(* ImageEnhancementWorker.sendEmail *)

\* to.map(email => email?.trim()).filter(Boolean)
FormatList(a) ==
  SelectSeq([i \in 1..Len(a) |-> trim(a[i])], LAMBDA x : Len(x) > 0)

BadFormatAtOnly(t) == ~includes(t, <<"@">>)

\* !formattedTo.includes('@') || formattedTo.split('@')[1].indexOf('.') === -1
BadFormat(t) ==
  \/ ~includes(t, <<"@">>)
  \/ indexOf(split(t, "@")[2], ".") = -1

\* the fields of params as sendEmail normalizes them: trimmed, the sender
\* defaulted, empty recipients dropped from a list
Normalize(p) ==
  [to |-> CASE p.to.t = "array" -> Arr(FormatList(p.to.v))
            [] p.to.t = "string" -> Str(trim(p.to.v))
            [] OTHER -> Undefined,
   subject |-> Str(trimOr(p.subject, <<>>)),
   body |-> Str(trimOr(p.body, <<>>)),
   htmlBody |-> IF p.htmlBody.t = "string" THEN Str(trim(p.htmlBody.v)) ELSE Undefined,
   from |-> Str(trimOr(p.from, HelloExample))]

KeyMissingUndefinedOnly(e) == e.RESEND_API_KEY.t = "undefined"

\* !this.env?.RESEND_API_KEY
KeyMissing(e) == ~truthy(e.RESEND_API_KEY)

WorkerStart(p, e) ==
  LET subject == trimOr(p.subject, <<>>)
      body == trimOr(p.body, <<>>)
      htmlBody == IF p.htmlBody.t = "string" THEN Str(trim(p.htmlBody.v)) ELSE Undefined
      from == trimOr(p.from, HelloExample)
      to == p.to
      formattedTo == IF to.t = "array" THEN Arr(FormatList(to.v)) ELSE Str(trim(to.v))
      text == IF Len(body) > 0 THEN Str(body) ELSE Undefined
      html == IF truthy(htmlBody) THEN htmlBody ELSE Undefined
  IN IF ~truthy(to)
     THEN Finished(ErrorResponse(400, "Recipient(s) cannot be empty", ""))
     ELSE IF KeyMissing(e)
     THEN Finished(PlainResponse(500, "Resend API key not configured"))
     ELSE IF Len(subject) = 0
     THEN Finished(ErrorResponse(400, "Subject cannot be empty", ""))
     ELSE IF to.t = "array" /\ Len(to.v) = 0
     THEN Finished(ErrorResponse(400, "Recipient(s) cannot be empty", ""))
     ELSE IF to.t = "string" /\ BadFormat(formattedTo.v)
     THEN Finished(ErrorResponse(400, "Email sending failed",
            "Invalid email format. Email must be in the format: user@domain.com"))
     ELSE Sends(Options(Str(from), formattedTo, Str(subject), text, html))

WorkerSettle(o) ==
  CASE o.k = "throwError" -> ErrorResponse(500, "Email sending failed", o.message)
    [] o.k = "throwValue" -> ErrorResponse(500, "Email sending failed", "Unknown error")
    [] o.k = "returnNothing" ->
         ErrorResponse(500, "Email sending failed", TypeErrorMessage)
    [] OTHER ->
         IF ~o.error.isNull
         THEN ErrorResponse(500, "Email sending failed",
                            textOr(o.error.message, "Unknown Resend error"))
         ELSE SuccessResponse(o.data)

----------------------------------------------------------------------------
(* EmailWorker.sendEmail *)

EmailWorkerStart(p, e) ==
  LET to == IF truthy(p.to) THEN p.to ELSE Str(AlexGlyfo)
  IN IF KeyMissing(e)
     THEN Finished(errorResponse("Resend API key not configured", 500))
     ELSE IF ~truthy(to)
     THEN Finished(errorResponse("Recipient email is required", 400))
     ELSE Sends(Options(Str(valueOr(p.from, NoReplyGlyfo)), to,
                        Str(valueOr(p.subject, NoSubject)),
                        Str(valueOr(p.body, <<>>)), Str(valueOr(p.htmlBody, <<>>))))

EmailWorkerSettle(o) ==
  CASE o.k = "throwError" -> errorResponse(o.message, 500)
    [] o.k = "throwValue" -> errorResponse("Unknown error", 500)
    [] o.k = "returnNothing" -> errorResponse(TypeErrorMessage, 500)
    [] OTHER ->
         IF ~o.error.isNull
         THEN errorResponse(textOr(o.error.message, "Email sending failed"), 400)
         ELSE SuccessResponse(o.data)

----------------------------------------------------------------------------
(* MyMCP sendEmail tool: declared schema and handler *)

LocalChars == Letters \cup Digits \cup {"_", "'", "+", "-", "."}
LocalLast == Letters \cup Digits \cup {"_", "+", "-"}
LabelFirst == Letters \cup Digits
LabelRest == LabelFirst \cup {"-"}

\* z.string().email(): one "@"; a local part that does not start with ".",
\* ends on a word character and has no ".."; dot-separated domain labels and
\* a top-level label of two or more letters
IsEmail(s) ==
  LET parts == split(s, "@")
  IN /\ Len(parts) = 2
     /\ LET local == parts[1]
            labels == split(parts[2], ".")
            tld == labels[Len(labels)]
        IN /\ Len(local) >= 1
           /\ local[1] # "."
           /\ ~includes(s, <<".", ".">>)
           /\ \A i \in 1..Len(local) : local[i] \in LocalChars
           /\ local[Len(local)] \in LocalLast
           /\ Len(labels) >= 2
           /\ \A j \in 1..(Len(labels) - 1) :
                /\ Len(labels[j]) >= 1
                /\ labels[j][1] \in LabelFirst
                /\ \A i \in 1..Len(labels[j]) : labels[j][i] \in LabelRest
           /\ Len(tld) >= 2
           /\ \A i \in 1..Len(tld) : tld[i] \in Letters

\* { to: z.string().email(), subject: z.string(), body: z.string() }
SchemaIssues(p) ==
  (CASE p.to.t = "undefined" -> {<<"to", "Required">>}
     [] p.to.t = "array" -> {<<"to", "Expected string, received array">>}
     [] OTHER -> IF IsEmail(p.to.v) THEN {} ELSE {<<"to", "Invalid email">>})
  \cup (IF p.subject.t = "string" THEN {} ELSE {<<"subject", "Required">>})
  \cup (IF p.body.t = "string" THEN {} ELSE {<<"body", "Required">>})

\* the handler up to its await: new Resend(key) throws without a key
ToolStart(p, e) ==
  IF SchemaIssues(p) # {}
  THEN Finished(SchemaError(SchemaIssues(p)))
  ELSE IF ~truthy(e.RESEND_API_KEY)
  THEN Finished(Envelope(<<"Error sending email: ", "Missing API key">>))
  ELSE Sends(Options(Str(NoReplyGlyfo), p.to, p.subject, p.body, Undefined))

IdTextOmitted(d) == ""

\* `${data.id}`
IdText(d) == IF d.hasId THEN d.id ELSE "undefined"

ToolSettleNoCatch(o) ==
  CASE o.k = "throwError" -> Escaped(o.message)
    [] o.k = "throwValue" -> Escaped(o.message)
    [] o.k = "returnNothing" -> Escaped(TypeErrorMessage)
    [] OTHER ->
         IF ~o.error.isNull
         THEN Envelope(<<"Failed to send email: ", o.error.message>>)
         ELSE IF o.data.isNull
         THEN Envelope(<<"Email sent but no ID was returned">>)
         ELSE Envelope(<<"Email sent successfully! Email ID: ", IdText(o.data)>>)

\* the handler after its await, with its try/catch
ToolSettle(o) ==
  CASE o.k = "throwError" -> Envelope(<<"Error sending email: ", o.message>>)
    [] o.k = "throwValue" -> Envelope(<<"Error sending email: ", o.message>>)
    [] o.k = "returnNothing" -> Envelope(<<"Error sending email: ", TypeErrorMessage>>)
    [] OTHER ->
         IF ~o.error.isNull
         THEN Envelope(<<"Failed to send email: ", o.error.message>>)
         ELSE IF o.data.isNull
         THEN Envelope(<<"Email sent but no ID was returned">>)
         ELSE Envelope(<<"Email sent successfully! Email ID: ", IdText(o.data)>>)

----------------------------------------------------------------------------
(* Email actions: a call runs to its await, then the provider settles it *)

MailIdle ==
  [pc |-> "idle", handler |-> "", params |-> NoParams, sent |-> <<>>,
   outcome |-> NoOutcome, result |-> NoResult]

Begin(handler, p, st) ==
  [pc |-> IF st.done THEN "done" ELSE "awaitSend", handler |-> handler, params |-> p,
   sent |-> st.options, outcome |-> NoOutcome, result |-> st.result]

Settle(o, r) == [mail EXCEPT !.pc = "done", !.outcome = o, !.result = r]

ToolSendEmail(p) ==
  /\ mail.pc # "awaitSend"
  /\ mail' = Begin("tool", p, ToolStart(p, env))
  /\ UNCHANGED <<env, conns, actors, img>>

ToolSendSettles(o) ==
  /\ mail.pc = "awaitSend" /\ mail.handler = "tool"
  /\ mail' = Settle(o, ToolSettle(o))
  /\ UNCHANGED <<env, conns, actors, img>>

WorkerSendEmail(p) ==
  /\ mail.pc # "awaitSend"
  /\ mail' = Begin("worker", p, WorkerStart(p, env))
  /\ UNCHANGED <<env, conns, actors, img>>

WorkerSendSettles(o) ==
  /\ mail.pc = "awaitSend" /\ mail.handler = "worker"
  /\ mail' = Settle(o, WorkerSettle(o))
  /\ UNCHANGED <<env, conns, actors, img>>

EmailWorkerSendEmail(p) ==
  /\ mail.pc # "awaitSend"
  /\ mail' = Begin("emailWorker", p, EmailWorkerStart(p, env))
  /\ UNCHANGED <<env, conns, actors, img>>

EmailWorkerSendSettles(o) ==
  /\ mail.pc = "awaitSend" /\ mail.handler = "emailWorker"
  /\ mail' = Settle(o, EmailWorkerSettle(o))
  /\ UNCHANGED <<env, conns, actors, img>>

----------------------------------------------------------------------------
(* Image generation: inputs, model doubles, responses *)

ShortLimit == 30
LongLimit == 100
MinSteps == 1
MaxSteps == 100
InpaintMinSteps == 10
InpaintMaxSteps == 50
DefaultSteps == 30
InpaintDefaultSteps == 40

\* /high resolution|detailed|professional|4K/i
QualityTerms ==
  {<<"h", "i", "g", "h", " ", "r", "e", "s", "o", "l", "u", "t", "i", "o", "n">>,
   <<"d", "e", "t", "a", "i", "l", "e", "d">>,
   <<"p", "r", "o", "f", "e", "s", "s", "i", "o", "n", "a", "l">>,
   <<"4", "k">>}

Suffix ==
  <<",", " ", "h", "i", "g", "h", " ", "r", "e", "s", "o", "l", "u", "t", "i", "o", "n", ",", " ",
    "d", "e", "t", "a", "i", "l", "e", "d", ",", " ", "p", "r", "o", "f", "e", "s", "s", "i", "o", "n", "a", "l", " ",
    "q", "u", "a", "l", "i", "t", "y">>

Cat == <<"c", "a", "t">>
PaddedCat == <<" ", "c", "a", "t", " ", " ">>
Cat4K == <<"c", "a", "t", " ", "4", "K">>
DetailedCat == <<"D", "e", "t", "a", "i", "l", "e", "d", " ", "c", "a", "t">>

PromptInputs ==
  {Undefined, Str(<<>>), Str(Blank), Str(Cat), Str(PaddedCat), Str(Cat4K),
   Str(DetailedCat),
   Str(Rep("a", ShortLimit - 1)), Str(Blank \o Rep("a", ShortLimit - 1)),
   Str(Rep("a", ShortLimit)), Str(Rep("a", LongLimit)),
   Str(Rep("a", LongLimit + 1)), Str(<<" ">> \o Rep("a", LongLimit + 1)),
   Str(Cat4K \o Rep("a", ShortLimit))}

Num(n) == [t |-> "number", v |-> n]
NoNum == [t |-> "undefined", v |-> 0]

StepsInputs ==
  {NoNum} \cup {Num(n) : n \in {-5, 0, 1, 9, 10, 30, 50, 51, 100, 101, 1000}}

\* every prompt with the usual step count, and two prompts (a short and a
\* long one) with every step count
ImageInputs ==
  {<<q, Num(30)>> : q \in PromptInputs}
    \cup {<<q, n>> : q \in {Str(Cat), Str(Rep("a", LongLimit + 1))}, n \in StepsInputs}

\* what env.AI.run can do for the language model
LlmReturns(r) == [k |-> "return", response |-> r, message |-> ""]
LlmReturnsNothing == [k |-> "returnNothing", response |-> Undefined, message |-> ""]
LlmThrows(m) == [k |-> "throwError", response |-> Undefined, message |-> m]

BetterPrompt == <<"c", "a", "t", ",", " ", "8", "K">>

LlmOutcomes ==
  {LlmReturns(Str(BetterPrompt)), LlmReturns(Str(<<" ">> \o BetterPrompt \o <<" ">>)),
   LlmReturns(Str(<<>>)), LlmReturns(Str(Blank)), LlmReturns(Undefined),
   LlmReturnsNothing, LlmThrows("model overloaded")}

\* what env.AI.run can do for the diffusion model
ImgReturns(i) == [k |-> "return", image |-> i, message |-> ""]
ImgReturnsNothing == [k |-> "returnNothing", image |-> Undefined, message |-> ""]
ImgThrows(m) == [k |-> "throwError", image |-> Undefined, message |-> m]
ImgThrowsTypeError(m) == [k |-> "throwTypeError", image |-> Undefined, message |-> m]

DiffusionOutcomes ==
  {ImgReturns(Str(<<"a", "G", "k", "=">>)), ImgReturns(Str(<<"a", "G", "k">>)),
   ImgReturns(Str(<<"a", "$", "k", "=">>)), ImgReturns(Str(<<"a">>)),
   ImgReturns(Str(<<>>)), ImgReturns(Undefined), ImgReturnsNothing,
   ImgThrows("capacity exceeded"), ImgThrowsTypeError("fetch failed")}

Base64Alphabet ==
  UpperCase \o LowerCase \o <<"0", "1", "2", "3", "4", "5", "6", "7", "8", "9", "+", "/">>

B64(c) == (CHOOSE n \in 1..64 : Base64Alphabet[n] = c) - 1

\* the input without its "=" padding (one or two, closing a group of four)
Unpadded(s) ==
  IF Len(s) % 4 = 0 /\ Len(s) >= 2 /\ s[Len(s)] = "="
  THEN IF s[Len(s) - 1] = "=" THEN SubSeq(s, 1, Len(s) - 2) ELSE SubSeq(s, 1, Len(s) - 1)
  ELSE s

RECURSIVE DecodeGroups(_)
DecodeGroups(s) ==
  CASE Len(s) = 0 -> <<>>
    [] Len(s) = 2 -> <<(B64(s[1]) * 64 + B64(s[2])) \div 16>>
    [] Len(s) = 3 ->
         LET n == B64(s[1]) * 4096 + B64(s[2]) * 64 + B64(s[3])
         IN <<n \div 1024, (n \div 4) % 256>>
    [] OTHER ->
         LET n == B64(s[1]) * 262144 + B64(s[2]) * 4096 + B64(s[3]) * 64 + B64(s[4])
         IN <<n \div 65536, (n \div 256) % 256, n % 256>>
              \o DecodeGroups(SubSeq(s, 5, Len(s)))

\* atob: the bytes, or an InvalidCharacterError
atob(s) ==
  LET u == Unpadded(s)
  IN IF (\A i \in 1..Len(u) : \E n \in 1..64 : Base64Alphabet[n] = u[i]) /\ Len(u) % 4 # 1
     THEN [ok |-> TRUE, bytes |-> DecodeGroups(u)]
     ELSE [ok |-> FALSE, bytes |-> <<>>]

ToStringValueEmpty(x) == IF x.t = "undefined" THEN <<>> ELSE x.v

\* String(x) of a value handed to atob
ToStringValue(x) ==
  IF x.t = "undefined" THEN <<"u", "n", "d", "e", "f", "i", "n", "e", "d">> ELSE x.v

NoImgResult ==
  [status |-> 0, contentType |-> "", cacheControl |-> "", plain |-> <<>>, error |-> "",
   details |-> "", bytes |-> <<>>]

\* new Response(bytes, { headers })
ImageResponse(bytes, contentType, cacheControl) ==
  [NoImgResult EXCEPT !.status = 200, !.contentType = contentType,
                      !.cacheControl = cacheControl, !.bytes = bytes]

\* new Response(text, { status }), the text given by its parts
TextFailure(status, text) == [NoImgResult EXCEPT !.status = status, !.plain = text]

\* new Response(JSON.stringify({ error, details }), { status, headers })
JsonFailure(status, error, details) ==
  [NoImgResult EXCEPT !.status = status, !.contentType = "application/json",
                      !.error = error, !.details = details]

----------------------------------------------------------------------------
(* Prompt enhancement *)

\* /high resolution|detailed|professional|4K/i.test(q)
HasQualityTerm(q) == \E w \in QualityTerms : includes(toLowerCase(q), w)

QuickEnhanceNoTrim(q) == q \o Suffix

\* `${basePrompt.trim()}, high resolution, detailed, professional quality`
QuickEnhance(q) == trim(q) \o Suffix

\* the test that skips the language model in MyWorker.enhanceImagePrompt
IsSimple(q) == Len(trim(q)) < ShortLimit /\ ~HasQualityTerm(q)

\* the catch block of MyWorker.enhanceImagePrompt
Fallback(q) ==
  IF Len(trim(q)) > LongLimit \/ HasQualityTerm(q) THEN trim(q) ELSE QuickEnhance(q)

\* what an enhance call hands back: a value, or an exception
Returned(x) == [state |-> "returned", value |-> x]
Threw == [state |-> "threw", value |-> Undefined]
NotEnhanced == [state |-> "none", value |-> Undefined]

\* MyWorker.enhanceImagePrompt after env.AI.run settled
enhanceImagePrompt(q, o) ==
  IF o.k = "return" /\ o.response.t = "string"
  THEN Returned(Str(trim(o.response.v)))
  ELSE Returned(Str(Fallback(q)))

\* ImageEnhancementWorker.enhancePrompt after env.AI.run settled: its catch
\* block logs and returns nothing
enhancePrompt(q, o) ==
  IF o.k = "return"
  THEN IF truthy(o.response) /\ Len(trim(o.response.v)) > 0
       THEN Returned(Str(trim(o.response.v)))
       ELSE Returned(Str(trim(q)))
  ELSE Returned(Undefined)

----------------------------------------------------------------------------
(* generateImage *)

\* Math.min(Math.max(lo, n), hi)
Clamp(lo, hi, n) ==
  LET m == IF n < lo THEN lo ELSE n
  IN IF m > hi THEN hi ELSE m

\* default parameter value
StepsOr(n, d) == IF n.t = "undefined" THEN d ELSE n.v

\* steps: Math.min(Math.max(1, steps), 100) of ImageEnhancementWorker
EnhSteps(n) == Clamp(MinSteps, MaxSteps, StepsOr(n, DefaultSteps))

\* steps, as MyWorker.generateImage passes it on
MyWorkerSteps(n) == StepsOr(n, DefaultSteps)

\* steps = Math.min(Math.max(steps, 10), 50)
InpaintSteps(n) == Clamp(InpaintMinSteps, InpaintMaxSteps, StepsOr(n, InpaintDefaultSteps))

Run(q, n) == [prompt |-> q, steps |-> n]

NoLlmOutcome == [k |-> "none", response |-> Undefined, message |-> ""]
NoImgOutcome == [k |-> "none", image |-> Undefined, message |-> ""]

ImgIdle ==
  [pc |-> "idle", handler |-> "", prompt |-> Undefined, steps |-> NoNum, llm |-> <<>>,
   llmOut |-> NoLlmOutcome, enhanced |-> NotEnhanced, diffusion |-> <<>>,
   imgOut |-> NoImgOutcome, result |-> NoImgResult]

ImgCall(h, q, n) == [ImgIdle EXCEPT !.handler = h, !.prompt = q, !.steps = n]

ImgDone(c, r) == [c EXCEPT !.pc = "done", !.result = r]

ImgSettled(c, o, r) == [c EXCEPT !.pc = "done", !.imgOut = o, !.result = r]

LlmSettled(c, o) == [c EXCEPT !.llmOut = o]

ImgAskLlm(c, q) == [c EXCEPT !.pc = "awaitLLM", !.llm = Append(c.llm, q)]

ImgAskDiffusionRaw(c, x, n) ==
  [c EXCEPT !.pc = "awaitDiffusion", !.enhanced = x,
            !.diffusion = Append(c.diffusion, Run(c.prompt, n))]

ImgAskDiffusion(c, x, n) ==
  [c EXCEPT !.pc = "awaitDiffusion", !.enhanced = x,
            !.diffusion = Append(c.diffusion, Run(x.value, n))]

\* ImageEnhancementWorker.generateImage
EnhGenerateImage(q, n) ==
  /\ img.pc \in {"idle", "done"}
  /\ LET c == ImgCall("ImageEnhancementWorker", q, n)
     IN img' =
          IF ~env.AI
          THEN ImgDone(c, [TextFailure(500, <<"AI binding not configured">>)
                             EXCEPT !.contentType = "application/json"])
          ELSE IF ~truthy(q) \/ Len(trim(q.v)) = 0
          THEN ImgDone(c, JsonFailure(400, "Prompt cannot be empty", ""))
          ELSE ImgAskLlm(c, trim(q.v))
  /\ UNCHANGED <<env, conns, actors, mail>>

EnhLlmSettles(o) ==
  /\ img.pc = "awaitLLM" /\ img.handler = "ImageEnhancementWorker"
  /\ img' = ImgAskDiffusion(LlmSettled(img, o), enhancePrompt(img.prompt.v, o),
                            EnhSteps(img.steps))
  /\ UNCHANGED <<env, conns, actors, mail>>

EnhDiffusionSettles(o) ==
  /\ img.pc = "awaitDiffusion" /\ img.handler = "ImageEnhancementWorker"
  /\ img' =
       ImgSettled(img, o,
         CASE o.k \in {"throwError", "throwTypeError"} ->
                JsonFailure(500, "Image generation failed", o.message)
           [] o.k = "returnNothing" ->
                JsonFailure(500, "Image generation failed", TypeErrorMessage)
           [] OTHER ->
                IF ~truthy(o.image)
                THEN JsonFailure(500, "Image generation failed", "No image data in response")
                ELSE IF ~atob(o.image.v).ok
                THEN JsonFailure(500, "Image generation failed", "InvalidCharacterError")
                ELSE ImageResponse(atob(o.image.v).bytes, "image/jpeg",
                                   "public, max-age=86400"))
  /\ UNCHANGED <<env, conns, actors, mail>>

\* MyWorker.generateImage with enhanceImagePrompt
MyWorkerGenerateImage(q, n) ==
  /\ img.pc \in {"idle", "done"}
  /\ LET c == ImgCall("MyWorker", q, n)
     IN img' =
          IF ~env.AI
          THEN ImgDone(c, TextFailure(500, <<"AI binding not found in environment">>))
          ELSE IF q.t = "undefined"
          THEN ImgDone([c EXCEPT !.enhanced = Threw],
                       TextFailure(500, <<"Error generating image: ", TypeErrorMessage>>))
          ELSE IF IsSimple(q.v)
          THEN ImgAskDiffusion(c, Returned(Str(QuickEnhance(q.v))), MyWorkerSteps(n))
          ELSE ImgAskLlm(c, trim(q.v))
  /\ UNCHANGED <<env, conns, actors, mail>>

MyWorkerLlmSettles(o) ==
  /\ img.pc = "awaitLLM" /\ img.handler = "MyWorker"
  /\ img' = ImgAskDiffusion(LlmSettled(img, o), enhanceImagePrompt(img.prompt.v, o),
                            MyWorkerSteps(img.steps))
  /\ UNCHANGED <<env, conns, actors, mail>>

MyWorkerDiffusionSettles(o) ==
  /\ img.pc = "awaitDiffusion" /\ img.handler = "MyWorker"
  /\ img' =
       ImgSettled(img, o,
         CASE o.k \in {"throwError", "throwTypeError"} ->
                TextFailure(500, <<"Error generating image: ", o.message>>)
           [] o.k = "returnNothing" ->
                TextFailure(500, <<"Error generating image: ", TypeErrorMessage>>)
           [] OTHER ->
                IF ~atob(ToStringValue(o.image)).ok
                THEN TextFailure(500, <<"Error generating image: ", "InvalidCharacterError">>)
                ELSE ImageResponse(atob(ToStringValue(o.image)).bytes, "image/jpeg", ""))
  /\ UNCHANGED <<env, conns, actors, mail>>

\* MyWorker.generateImage of the inpainting variant (no enhancement)
InpaintGenerateImage(q, n) ==
  /\ img.pc \in {"idle", "done"}
  /\ LET c == ImgCall("MyWorkerInpaint", q, n)
     IN img' =
          IF ~truthy(q)
          THEN ImgDone(c, TextFailure(400, <<"Prompt is required">>))
          ELSE IF ~env.AI
          THEN ImgDone(c, TextFailure(500, <<"AI binding not found in environment">>))
          ELSE [c EXCEPT !.pc = "awaitDiffusion",
                         !.diffusion = <<Run(q, InpaintSteps(n))>>]
  /\ UNCHANGED <<env, conns, actors, mail>>

InpaintDiffusionSettles(o) ==
  /\ img.pc = "awaitDiffusion" /\ img.handler = "MyWorkerInpaint"
  /\ img' =
       ImgSettled(img, o,
         CASE o.k = "throwError" ->
                TextFailure(500, <<"Error generating image: ", o.message>>)
           [] o.k = "throwTypeError" ->
                TextFailure(400, <<"Error generating image: ", o.message>>)
           [] OTHER ->
                IF ~truthy(o.image)
                THEN TextFailure(500, <<"Error generating image: ", "No image generated">>)
                ELSE IF ~atob(o.image.v).ok
                THEN TextFailure(500, <<"Error generating image: ", "InvalidCharacterError">>)
                ELSE ImageResponse(atob(o.image.v).bytes, "image/png", "no-cache"))
  /\ UNCHANGED <<env, conns, actors, mail>>

----------------------------------------------------------------------------
(* Tool calls on a Session Actor *)

\* tool calls dispatched so far, over all actors
RECURSIVE Dispatched(_)
Dispatched(ks) ==
  IF ks = {} THEN 0
  ELSE LET k == CHOOSE x \in ks : TRUE
       IN Len(actors[k].calls) + Dispatched(ks \ {k})

\* a call of the sendEmail tool on the actor: ready is what the actor was
\* when the call was dispatched
ToolCall(a, st) ==
  [pc |-> IF st.done THEN "done" ELSE "awaitSend", ready |-> a.ready,
   sent |-> Len(st.options), result |-> st.result]

\* the MCP server of actor k dispatches a sendEmail call to the registered
\* handler, which runs to its await; a call in flight does not hold it back
ActorToolCall(k, p) ==
  /\ "sendEmail" \in actors[k].tools
  /\ Dispatched(SessionKeys) < MaxCalls
  /\ actors' = [actors EXCEPT ![k].calls = Append(@, ToolCall(actors[k], ToolStart(p, env)))]
  /\ UNCHANGED <<env, conns, mail, img>>

\* the provider settles call i of actor k and the handler returns
ActorToolSettles(k, i, o) ==
  /\ i \in 1..Len(actors[k].calls)
  /\ actors[k].calls[i].pc = "awaitSend"
  /\ actors' = [actors EXCEPT ![k].calls[i] =
                   [@ EXCEPT !.pc = "done", !.result = ToolSettle(o)]]
  /\ UNCHANGED <<env, conns, mail, img>>

----------------------------------------------------------------------------
(* Specifications *)

Init ==
  /\ env \in EnvValues
  /\ conns = <<>>
  /\ actors = [k \in SessionKeys |-> NoActor]
  /\ mail = MailIdle
  /\ img = ImgIdle

NextGate ==
  \/ \E h \in HeaderValues, k \in MountKeys : MountConnect(h, k)
  \/ \E h \in HeaderValues : SseConnect(h)

NextEmail ==
  \/ \E p \in ParamsInputs : ToolSendEmail(p)
  \/ \E o \in ProviderOutcomes : ToolSendSettles(o)
  \/ \E p \in ParamsInputs : WorkerSendEmail(p)
  \/ \E o \in ProviderOutcomes : WorkerSendSettles(o)
  \/ \E p \in ParamsInputs : EmailWorkerSendEmail(p)
  \/ \E o \in ProviderOutcomes : EmailWorkerSendSettles(o)

NextImage ==
  \/ \E x \in ImageInputs : EnhGenerateImage(x[1], x[2])
  \/ \E o \in LlmOutcomes : EnhLlmSettles(o)
  \/ \E o \in DiffusionOutcomes : EnhDiffusionSettles(o)
  \/ \E x \in ImageInputs : MyWorkerGenerateImage(x[1], x[2])
  \/ \E o \in LlmOutcomes : MyWorkerLlmSettles(o)
  \/ \E o \in DiffusionOutcomes : MyWorkerDiffusionSettles(o)
  \/ \E x \in ImageInputs : InpaintGenerateImage(x[1], x[2])
  \/ \E o \in DiffusionOutcomes : InpaintDiffusionSettles(o)

\* connections and tool calls on the fixed-name actor and one session actor
ActorParams ==
  {[to |-> t, subject |-> Str(<<"H", "i">>), body |-> Str(<<"t", "e", "s", "t">>),
    htmlBody |-> Undefined, from |-> Undefined] : t \in {Str(GoodAddr), Str(NotAnEmail)}}

NextActor ==
  \/ \E h \in {NoHeader, Header("Bearer t1"), Header("Bearer t2")} : MountConnect(h, "sse:session-1")
  \/ \E h \in {NoHeader, Header("Bearer t1"), Header("Bearer t2")} : SseConnect(h)
  \/ \E k \in {FixedKey, "sse:session-1"}, p \in ActorParams : ActorToolCall(k, p)
  \/ \E k \in {FixedKey, "sse:session-1"}, i \in 1..MaxCalls,
          o \in {Returns(DataWithId("msg_123"), NoErrorV), ThrowsError("fetch failed")} :
       ActorToolSettles(k, i, o)

\* a few email and image requests side by side
CapabilityParams ==
  {p \in ParamsInputs :
     /\ p.to \in {Str(GoodAddr), Str(NotAnEmail)}
     /\ p.subject = Str(<<" ", "H", "i", " ">>)
     /\ p.body = Str(<<"t", "e", "s", "t">>)
     /\ p.htmlBody = Undefined}
CapabilityOutcomes ==
  {Returns(DataWithId("msg_123"), NoErrorV), Returns(NoDataV, ErrorV("rate limited")),
   ThrowsError("fetch failed")}
CapabilityImages ==
  {<<Str(Cat), Num(30)>>, <<Str(Rep("a", ShortLimit)), NoNum>>, <<Undefined, Num(30)>>}
CapabilityModels ==
  [llm |-> {LlmReturns(Str(BetterPrompt)), LlmThrows("model overloaded")},
   diffusion |-> {ImgReturns(Str(<<"a", "G", "k", "=">>)), ImgThrows("capacity exceeded")}]

NextCapability ==
  \/ \E p \in CapabilityParams : ToolSendEmail(p)
  \/ \E o \in CapabilityOutcomes : ToolSendSettles(o)
  \/ \E p \in CapabilityParams : WorkerSendEmail(p)
  \/ \E o \in CapabilityOutcomes : WorkerSendSettles(o)
  \/ \E p \in CapabilityParams : EmailWorkerSendEmail(p)
  \/ \E o \in CapabilityOutcomes : EmailWorkerSendSettles(o)
  \/ \E x \in CapabilityImages : EnhGenerateImage(x[1], x[2])
  \/ \E o \in CapabilityModels.llm : EnhLlmSettles(o)
  \/ \E o \in CapabilityModels.diffusion : EnhDiffusionSettles(o)
  \/ \E x \in CapabilityImages : MyWorkerGenerateImage(x[1], x[2])
  \/ \E o \in CapabilityModels.llm : MyWorkerLlmSettles(o)
  \/ \E o \in CapabilityModels.diffusion : MyWorkerDiffusionSettles(o)
  \/ \E x \in CapabilityImages : InpaintGenerateImage(x[1], x[2])
  \/ \E o \in CapabilityModels.diffusion : InpaintDiffusionSettles(o)

SpecGate == Init /\ [][NextGate]_vars

SpecCapability == Init /\ [][NextCapability]_vars

SpecActor == Init /\ [][NextActor]_vars

SpecEmail == Init /\ [][NextEmail]_vars

SpecImage == Init /\ [][NextImage]_vars

----------------------------------------------------------------------------
(* Auth gate properties *)

HeaderAbsentOrEmpty(h) == ~h.present \/ h.v = ""

ConnsTo(k) == {i \in 1..Len(conns) : conns[i].key = k}

\* C1: every connection whose authorization header is missing or empty is
\* answered 401 and reaches no Session Actor (none constructed, resolved or
\* handed the request), whatever connections came before it.
C1_MissingAuthRejected ==
  /\ \A i \in 1..Len(conns) :
       HeaderAbsentOrEmpty(conns[i].header) =>
         /\ conns[i].status = 401
         /\ conns[i].key = ""
         /\ ~conns[i].props.has
  /\ \A k \in SessionKeys :
       /\ actors[k].requests =
            Cardinality({i \in ConnsTo(k) : ~HeaderAbsentOrEmpty(conns[i].header)})
       /\ actors[k].constructed => actors[k].requests > 0

\* an empty header is rejected after an earlier connection was accepted
C1_Witness ==
  /\ Len(conns) >= 2
  /\ conns[1].status = 200
  /\ actors[conns[1].key].constructed
  /\ conns[Len(conns)].header = Header("")
  /\ conns[Len(conns)].status = 401

\* C2: a connection with a non-empty authorization header is accepted
\* whatever the value, and the props handed to the Session Actor carry
\* exactly that value as bearerToken.
C2_CredentialForwarded ==
  \A i \in 1..Len(conns) :
    ~HeaderAbsentOrEmpty(conns[i].header) =>
      /\ conns[i].status # 401
      /\ conns[i].key \in SessionKeys
      /\ conns[i].props.has
      /\ conns[i].props.bearerToken = conns[i].header.v
      /\ (\A j \in ConnsTo(conns[i].key) : j <= i) =>
           /\ actors[conns[i].key].props.has
           /\ actors[conns[i].key].props.bearerToken = conns[i].header.v

\* a header that is no bearer token at all is accepted by both gates
C2_Witness ==
  \E i, j \in 1..Len(conns) :
    /\ conns[i].gate = "mount" /\ conns[j].gate = "sse"
    /\ conns[i].header = Header("garbage") /\ conns[j].header = Header("garbage")
    /\ actors[conns[i].key].props.bearerToken = "garbage"
    /\ actors[FixedKey].props.bearerToken = "garbage"

----------------------------------------------------------------------------
(* Email properties *)

KeyConfigured == truthy(env.RESEND_API_KEY)

SubjectGiven == mail.params.subject.t = "string" /\ Len(trim(mail.params.subject.v)) > 0

\* C3: the sendEmail tool handler lets no exception escape: whatever the
\* provider does (error value, data, no data, a throw, a throw of the client's
\* constructor), an invoked handler ends with an envelope of exactly one text item.
C3_ToolAlwaysEnvelope ==
  (mail.handler = "tool" /\ mail.pc = "done" /\ SchemaIssues(mail.params) = {}) =>
    /\ mail.result.shape = "envelope"
    /\ Len(mail.result.content) = 1
    /\ mail.result.content[1].type = "text"
    /\ Len(mail.result.content[1].text) >= 1

\* the provider's send threw
C3_Witness ==
  /\ mail.handler = "tool" /\ mail.pc = "done"
  /\ mail.outcome.k = "throwError"
  /\ mail.result = Envelope(<<"Error sending email: ", "fetch failed">>)

\* the recipient, as a string to be judged: a single address
SingleRecipient == mail.params.to.t = "string" /\ Len(trim(mail.params.to.v)) > 0

\* no "@", or no "." between the first "@" and the next one
NoDotAfterFirstAt(t) ==
  ~\E i \in 1..Len(t) :
     /\ t[i] = "@"
     /\ \A j \in 1..(i - 1) : t[j] # "@"
     /\ \E k \in (i + 1)..Len(t) : t[k] = "." /\ \A m \in (i + 1)..k : t[m] # "@"

CitesInvalidFormat ==
  \/ /\ mail.result.shape = "response"
     /\ mail.result.status = 400
     /\ mail.result.details =
          "Invalid email format. Email must be in the format: user@domain.com"
  \/ /\ mail.result.shape = "schemaError"
     /\ <<"to", "Invalid email">> \in mail.result.issues

\* a recipient that is no syntactically valid address (single, or in a list
\* where the handler's signature takes one)
RecipientInvalid ==
  \/ SingleRecipient /\ ~IsEmail(trim(mail.params.to.v))
  \/ /\ mail.handler = "worker"
     /\ mail.params.to.t = "array"
     /\ \E i \in 1..Len(mail.params.to.v) :
          Len(trim(mail.params.to.v[i])) > 0 /\ ~IsEmail(trim(mail.params.to.v[i]))

ToNormalizesEmpty ==
  LET to == mail.params.to
  IN \/ to.t = "undefined"
     \/ to.t = "string" /\ Len(trim(to.v)) = 0
     \/ to.t = "array" /\ \A i \in 1..Len(to.v) : Len(trim(to.v[i])) = 0

\* C5 (provider credential configured): an input whose `to` normalizes to
\* empty ends as an InvalidInput failure (status 400) and the provider's send
\* is not invoked.
C5_EmptyRecipientRejected ==
  (KeyConfigured /\ mail.handler \in {"worker", "emailWorker"} /\ mail.pc # "idle"
     /\ ToNormalizesEmpty) =>
    /\ mail.sent = <<>>
    /\ mail.pc = "done"
    /\ mail.result.shape = "response"
    /\ mail.result.status = 400

ConfigurationFailure ==
  \/ /\ mail.handler = "tool"
     /\ mail.result = Envelope(<<"Error sending email: ", "Missing API key">>)
  \/ /\ mail.handler = "worker"
     /\ mail.result = PlainResponse(500, "Resend API key not configured")
  \/ /\ mail.handler = "emailWorker"
     /\ mail.result = errorResponse("Resend API key not configured", 500)

\* C6 as stated: without the provider credential every call, whatever its
\* input message (one the tool's schema admits, on the tool), ends in a
\* configuration failure and the provider's send is not invoked.
C6_Original ==
  (~KeyConfigured /\ mail.pc # "idle"
     /\ (mail.handler = "tool" => SchemaIssues(mail.params) = {})) =>
    /\ mail.sent = <<>>
    /\ mail.pc = "done"
    /\ ConfigurationFailure

\* the checks a handler makes before it reads the credential
PassesEarlierChecks ==
  CASE mail.handler = "tool" -> SchemaIssues(mail.params) = {}
    [] mail.handler = "worker" ->
         mail.params.to.t = "array"
           \/ (mail.params.to.t = "string" /\ Len(mail.params.to.v) > 0)
    [] OTHER -> TRUE

\* C6 amended: without the provider credential the provider's send is never
\* invoked, whatever the input; the call ends in a configuration failure
\* exactly when the input passes the checks made before the credential is read
\* (the tool's schema; a present, non-empty `to` on ImageEnhancementWorker).
C6_NoKeyNoSend ==
  (~KeyConfigured /\ mail.pc # "idle") =>
    /\ mail.sent = <<>>
    /\ mail.pc = "done"
    /\ mail.result.shape # "exception"
    /\ ConfigurationFailure <=> PassesEarlierChecks

\* an empty-string credential
C6_Witness ==
  /\ env.RESEND_API_KEY = Str(<<>>)
  /\ mail.pc = "done"
  /\ mail.params.to = Str(GoodAddr)
  /\ ConfigurationFailure
  /\ mail.sent = <<>>

----------------------------------------------------------------------------
(* Image properties *)

Requested == img.steps

\* n clamped into lo..hi, said without the code's Math.min / Math.max
IsClampOf(s, lo, hi, n) ==
  /\ s \in lo..hi
  /\ n \in lo..hi => s = n
  /\ n < lo => s = lo
  /\ n > hi => s = hi

\* C7: every call that reaches the diffusion model passes the requested steps
\* clamped into the supported range (1..100; 10..50 for the inpainting
\* variant), e.g. 1000 becomes 100.
C7_StepsClamped ==
  \A i \in 1..Len(img.diffusion) :
    IF img.handler = "MyWorkerInpaint"
    THEN IsClampOf(img.diffusion[i].steps, InpaintMinSteps, InpaintMaxSteps,
                   StepsOr(Requested, InpaintDefaultSteps))
    ELSE IsClampOf(img.diffusion[i].steps, MinSteps, MaxSteps,
                   StepsOr(Requested, DefaultSteps))

NonEmptyString(x) == x.t = "string" /\ Len(x.v) > 0

\* C8: for a string prompt, enhance never throws and hands back a non-empty
\* string, and so the diffusion model always receives a non-empty prompt,
\* whether the language model succeeds, throws or returns empty output.
C8_PromptNeverEmpty ==
  (img.handler \in {"ImageEnhancementWorker", "MyWorker"} /\ img.prompt.t = "string") =>
    /\ img.enhanced.state # "threw"
    /\ img.enhanced.state = "returned" => NonEmptyString(img.enhanced.value)
    /\ \A i \in 1..Len(img.diffusion) : NonEmptyString(img.diffusion[i].prompt)

\* C9: for a long prompt (over 100 characters after trim), when the
\* language-model call fails, enhance returns the trimmed original prompt.
C9_FallbackKeepsLongPrompt ==
  (/\ img.handler \in {"ImageEnhancementWorker", "MyWorker"}
   /\ img.prompt.t = "string"
   /\ Len(trim(img.prompt.v)) > LongLimit
   /\ img.llmOut.k = "throwError") =>
    /\ img.enhanced.state = "returned"
    /\ img.enhanced.value.t = "string"
    /\ img.enhanced.value.v = trim(img.prompt.v)

NoQualityKeyword(q) == \A w \in QualityTerms : ~includes(toLowerCase(q), w)

\* the call got as far as prompt enhancement with a short, plain prompt
ShortPlainPrompt ==
  /\ img.pc # "idle"
  /\ env.AI
  /\ img.prompt.t = "string"
  /\ Len(trim(img.prompt.v)) < ShortLimit
  /\ NoQualityKeyword(img.prompt.v)

ImageHandlers == {"ImageEnhancementWorker", "MyWorker", "MyWorkerInpaint"}

IsSuccess == img.result.status \in 200..299

\* the body of a failure says what went wrong
HasDiagnosticBody ==
  \/ Len(img.result.plain) > 0 /\ img.result.plain[1] # ""
  \/ img.result.error # ""

\* the diffusion model answered with an image field that holds base64 text
ImageDecodes ==
  /\ img.imgOut.k = "return"
  /\ img.imgOut.image.t = "string"
  /\ atob(img.imgOut.image.v).ok

\* C11: generateImage always ends with a response; the response is a success
\* (2xx, the decoded bytes, an image content type) only if the diffusion model
\* returned an image that base64-decoded, and a missing image, a decode
\* failure, a model exception or a missing AI binding give a non-2xx response
\* with a diagnostic body.
C11_ImageResponseTotal ==
  (img.handler \in ImageHandlers /\ img.pc = "done") =>
    /\ img.result.status \in 200..599
    /\ IsSuccess =>
         /\ ImageDecodes
         /\ img.handler # "MyWorker" => Len(img.imgOut.image.v) > 0
         /\ img.result.bytes = atob(img.imgOut.image.v).bytes
         /\ img.result.contentType \in {"image/jpeg", "image/png"}
    /\ (~env.AI \/ ~ImageDecodes) => (~IsSuccess /\ HasDiagnosticBody)

\* "aGk=" comes back as the two bytes of "hi"
C11_Witness ==
  /\ img.handler = "ImageEnhancementWorker"
  /\ img.pc = "done"
  /\ img.imgOut = ImgReturns(Str(<<"a", "G", "k", "=">>))
  /\ img.result.status = 200
  /\ img.result.bytes = <<104, 105>>

----------------------------------------------------------------------------
(* Provider results of sendEmail *)

\* the text of the envelope, as the parts it is concatenated from
EnvelopeText == IF mail.result.shape = "envelope" THEN mail.result.content[1].text ELSE <<>>

TextContains(text, part) == \E i \in 1..Len(text) : text[i] = part

ToolSettled == mail.handler = "tool" /\ mail.pc = "done" /\ mail.outcome.k # "none"

ProviderSucceeded == mail.outcome.k = "return" /\ mail.outcome.error.isNull

\* C12: when the provider's send returns without error and with an
\* identifier, the text of the sendEmail envelope contains that identifier.
C12_IdInText ==
  (ToolSettled /\ ProviderSucceeded /\ ~mail.outcome.data.isNull /\ mail.outcome.data.hasId) =>
    /\ mail.result.shape = "envelope"
    /\ TextContains(EnvelopeText, mail.outcome.data.id)

C12_Witness ==
  /\ ToolSettled
  /\ mail.outcome = Returns(DataWithId("msg_123"), NoErrorV)
  /\ EnvelopeText = <<"Email sent successfully! Email ID: ", "msg_123">>

\* C13: when the provider's send succeeds but returns no identifying payload
\* (no data, or data without an id), the envelope reports "sent but no ID",
\* never the full-success text and never a failure text.
C13_NoIdPartialSuccess ==
  (/\ ToolSettled
   /\ ProviderSucceeded
   /\ (mail.outcome.data.isNull \/ ~mail.outcome.data.hasId)) =>
    EnvelopeText = <<"Email sent but no ID was returned">>

ProviderReportedError == mail.outcome.k = "return" /\ ~mail.outcome.error.isNull

\* where each sendEmail variant puts the reason of a failure
FailureMessage ==
  CASE mail.handler = "tool" -> mail.result.content[1].text[Len(mail.result.content[1].text)]
    [] mail.handler = "worker" -> mail.result.details
    [] OTHER -> mail.result.error

IsFailure ==
  IF mail.handler = "tool"
  THEN mail.result.shape = "envelope"
         /\ mail.result.content[1].text[1] = "Failed to send email: "
  ELSE mail.result.shape = "response" /\ mail.result.status \notin 200..299

\* C14: when the provider's send returns an error value, the failure that
\* sendEmail reports carries the provider's message verbatim, whatever the
\* message is, the empty one included.
C14_ProviderMessageVerbatim ==
  (mail.pc = "done" /\ ProviderReportedError) =>
    (IsFailure /\ FailureMessage = mail.outcome.error.message)

\* C14 amended: the MCP tool carries the provider's message unchanged whatever
\* it is; the two workers carry every non-empty message unchanged and put
\* their own generic text in the place of an empty one.
C14_ProviderMessageKept ==
  (mail.pc = "done" /\ ProviderReportedError) =>
    /\ IsFailure
    /\ (mail.handler = "tool" \/ mail.outcome.error.message # "") =>
         FailureMessage = mail.outcome.error.message
    /\ (mail.handler = "worker" /\ mail.outcome.error.message = "") =>
         FailureMessage = "Unknown Resend error"
    /\ (mail.handler = "emailWorker" /\ mail.outcome.error.message = "") =>
         FailureMessage = "Email sending failed"

C14_Witness ==
  /\ mail.handler = "worker"
  /\ mail.pc = "done"
  /\ mail.outcome = Returns(NoDataV, ErrorV("rate limited"))
  /\ mail.result.status = 500
  /\ mail.result.details = "rate limited"

SubjectMissing ==
  mail.params.subject.t = "undefined" \/ Len(trim(mail.params.subject.v)) = 0

\* the rest of the call is in order: a key, one good recipient
OtherwiseSendable ==
  /\ KeyConfigured
  /\ mail.params.to = Str(GoodAddr)

\* C15: a sendEmail call whose subject is absent, or empty after trim, does
\* not fail for that reason: the message goes to the provider with a
\* placeholder subject.
C15_SubjectPlaceholder ==
  (/\ mail.handler \in {"worker", "emailWorker"}
   /\ mail.pc # "idle"
   /\ OtherwiseSendable
   /\ SubjectMissing) =>
    /\ Len(mail.sent) = 1
    /\ mail.sent[1].subject.t = "string"
    /\ Len(trim(mail.sent[1].subject.v)) > 0

----------------------------------------------------------------------------
(* Session Actor properties *)

InFlight(k) == {i \in 1..Len(actors[k].calls) : actors[k].calls[i].pc = "awaitSend"}

\* an actor is Ready exactly when init has run on it, which is once, from
\* its construction on; every call dispatched to it found it Ready
InitialisedOnce ==
  \A k \in SessionKeys :
    /\ actors[k].inits <= 1
    /\ actors[k].ready <=> actors[k].inits = 1
    /\ actors[k].constructed => actors[k].ready
    /\ ~actors[k].ready => actors[k].tools = {}
    /\ \A i \in 1..Len(actors[k].calls) : actors[k].calls[i].ready

\* Ready is entered by the step that runs init and registers the tools, and
\* is never left
ReadyByInit ==
  \A k \in SessionKeys :
    /\ actors[k].ready => actors'[k].ready /\ actors'[k].inits = actors[k].inits
    /\ (~actors[k].ready /\ actors'[k].ready) =>
         (actors'[k].inits = 1 /\ actors'[k].tools # {} /\ actors'[k].calls = <<>>)

RegistryIs(names) == \A k \in SessionKeys : actors[k].ready => actors[k].tools = names

\* C17 as stated: in every Ready state the registry is sendEmail and
\* generateImage.
C17_Original == RegistryIs({"sendEmail", "generateImage"})

\* a step that dispatches or settles a tool call leaves the registry alone
CallsKeepRegistry ==
  \A k \in SessionKeys :
    actors'[k].calls # actors[k].calls => actors'[k].tools = actors[k].tools

\* C17 amended: in every Ready state the actor's registry is exactly
\* {sendEmail}, and no tool call, whatever its outcome, changes it.
C17_RegistryFixed == []RegistryIs({"sendEmail"}) /\ [][CallsKeepRegistry]_vars

\* one call failed and one succeeded on the same actor
C17_Witness ==
  \E k \in SessionKeys :
    /\ actors[k].ready
    /\ actors[k].tools = {"sendEmail"}
    /\ Len(actors[k].calls) = 2
    /\ actors[k].calls[1].pc = "done"
    /\ actors[k].calls[2].pc = "done"
    /\ actors[k].calls[1].result # actors[k].calls[2].result

SseForwarded == {i \in 1..Len(conns) : conns[i].gate = "sse" /\ conns[i].status = 200}

\* C18: the same SessionKey always resolves to the same actor instance: every
\* authorized connection of the /sse* route, whatever its credential, goes to
\* the one actor named "mcp-agent-instance", and no key ever has two instances.
C18_SameKeySameActor ==
  /\ \A i \in SseForwarded : conns[i].key = FixedKey
  /\ actors[FixedKey].requests >= Cardinality(SseForwarded)
  /\ \A k \in SessionKeys :
       /\ actors[k].instances <= 1
       /\ actors[k].requests = Cardinality(ConnsTo(k))

\* two credentials, one actor
C18_Witness ==
  /\ \E i, j \in SseForwarded : conns[i].header.v # conns[j].header.v
  /\ actors[FixedKey].instances = 1
  /\ actors[FixedKey].requests = Len(conns)
  /\ Len(conns) >= 2

\* C19: on one Session Actor at most one tool call is in flight at any time.
C19_NoOverlap == \A k \in SessionKeys : Cardinality(InFlight(k)) <= 1

----------------------------------------------------------------------------
(* External capability calls per request *)

ProviderFailed ==
  mail.outcome.k \in {"throwError", "throwValue", "returnNothing"} \/ ProviderReportedError

EmailSentAtMostOnce ==
  /\ Len(mail.sent) <= 1
  /\ mail.pc = "awaitSend" => Len(mail.sent) = 1
  /\ (mail.pc = "done" /\ mail.outcome.k # "none") => Len(mail.sent) = 1

ModelsAskedAtMostOnce ==
  /\ Len(img.llm) <= 1
  /\ Len(img.diffusion) <= 1
  /\ img.pc = "awaitLLM" => (Len(img.llm) = 1 /\ img.diffusion = <<>>)
  /\ img.pc = "awaitDiffusion" => Len(img.diffusion) = 1
  /\ img.imgOut.k # "none" => Len(img.diffusion) = 1

\* the diffusion model is asked after enhancement returned, with its result
DiffusionGetsEnhanced ==
  (img.handler \in {"ImageEnhancementWorker", "MyWorker"} /\ Len(img.diffusion) = 1) =>
    /\ img.enhanced.state = "returned"
    /\ img.diffusion[1].prompt = img.enhanced.value
    /\ img.llm # <<>> => img.llmOut.k # "none"

\* C20: a request invokes each external capability at most once and never
\* again after a failure: sendEmail calls the provider's send at most once;
\* generateImage asks the language model at most once and the diffusion model
\* at most once, after enhancement returned and with exactly its result.
C20_AtMostOncePerRequest ==
  /\ EmailSentAtMostOnce
  /\ ModelsAskedAtMostOnce
  /\ DiffusionGetsEnhanced

\* both requests failed at their last capability call, each after one attempt
C20_Witness ==
  /\ mail.pc = "done" /\ ProviderFailed /\ Len(mail.sent) = 1
  /\ img.handler = "MyWorker" /\ img.pc = "done"
  /\ img.llmOut = LlmReturns(Str(BetterPrompt))
  /\ img.imgOut.k = "throwError"
  /\ Len(img.llm) = 1
  /\ img.diffusion = <<Run(Str(BetterPrompt), DefaultSteps)>>

----------------------------------------------------------------------------
(* Normalization *)

\* text and html are set only when there is something to put in them
NonEmptyOrAbsent(x) == IF x.t = "string" /\ Len(x.v) > 0 THEN x ELSE Undefined

\* the message the worker hands to the provider is the normalized one
SentIsNormalized ==
  Len(mail.sent) = 1 =>
    LET n == Normalize(mail.params)
    IN mail.sent[1] = Options(n.from, n.to, n.subject, NonEmptyOrAbsent(n.body),
                              NonEmptyOrAbsent(n.htmlBody))

\* C21: normalization of an EmailMessage is idempotent: normalizing a message
\* that is already normalized (fields trimmed, sender defaulted, empty
\* recipients dropped) gives the identical message.
C21_NormalizeIdempotent ==
  (mail.handler = "worker" /\ mail.pc # "idle") =>
    /\ Normalize(Normalize(mail.params)) = Normalize(mail.params)
    /\ SentIsNormalized

\* a padded sender and a list with an empty entry, sent trimmed and filtered
C21_Witness ==
  /\ mail.handler = "worker"
  /\ mail.params.to = Arr(<<PaddedAddr, <<>>>>)
  /\ mail.params.from.t = "string"
  /\ Len(mail.sent) = 1
  /\ mail.sent[1].to = Arr(<<GoodAddr>>)
  /\ mail.sent[1].from = Str(<<"m", "e", "@", "x", ".", "i", "o">>)
  /\ mail.params # Normalize(mail.params)

----------------------------------------------------------------------------
(* Empty prompts *)

PromptEmptyAfterTrim == img.prompt.t = "undefined" \/ Len(trim(img.prompt.v)) = 0

\* C22: a generateImage call whose prompt is absent, empty or whitespace only
\* is rejected with a 400 response, and neither the language model nor the
\* diffusion model is invoked.
C22_EmptyPromptRejected ==
  (/\ img.handler \in {"ImageEnhancementWorker", "MyWorkerInpaint"}
   /\ env.AI
   /\ PromptEmptyAfterTrim) =>
    /\ img.pc = "done"
    /\ img.result.status = 400
    /\ img.llm = <<>>
    /\ img.diffusion = <<>>

----------------------------------------------------------------------------
(* Credential of a Session Actor *)

\* the first connection that was forwarded to the actor named k
FirstConnTo(k) == CHOOSE i \in ConnsTo(k) : \A j \in ConnsTo(k) : i <= j

\* C23: the Credential attached to a Session Actor never changes: after any
\* sequence of authorized connections with different bearer tokens to the
\* same actor, the actor's Credential is still the one attached first. Said
\* of the actor that every /sse* connection resolves to.
C23_CredentialNeverChanges ==
  ConnsTo(FixedKey) # {} =>
    actors[FixedKey].props = conns[FirstConnTo(FixedKey)].props

----------------------------------------------------------------------------
(* Credential and log *)

OtherCredentials == {"Bearer t1", "Bearer t2", "garbage", "Bearer t3"}

\* no value written by the record is the text v
RecordOmits(r, v) ==
  /\ \A x \in r.data : x[2] # v
  /\ \A x \in r.headers : x[2] # v
  /\ r.message # v

\* C24: the bearer credential never reaches the log: the records a request
\* makes the worker, the gate and the Session Actor write do not hold the
\* value of its authorization header, and they are the same records for any
\* other non-empty value, so two request sequences that differ only in these
\* values leave identical logs.
C24_CredentialNotLogged ==
  \A i \in 1..Len(conns) :
    ~HeaderAbsentOrEmpty(conns[i].header) =>
      /\ \A j \in 1..Len(conns[i].log) : RecordOmits(conns[i].log[j], conns[i].header.v)
      /\ \A v \in OtherCredentials :
           conns[i].log =
             RequestLog(conns[i].gate, Header(v), conns[i].key, conns[i].constructs, env)
      /\ conns[i].constructs <=> (\A j \in 1..(i - 1) : conns[j].key # conns[i].key)

\* the second and third request differ in their credential alone, and log alike
C24_Witness ==
  /\ Len(conns) = 3
  /\ \A i \in 1..3 : conns[i].gate = "sse" /\ conns[i].status = 200
  /\ conns[2].header.v # conns[3].header.v
  /\ conns[2].log = conns[3].log
  /\ Len(conns[1].log) > Len(conns[2].log)
  /\ \E j \in 1..Len(conns[2].log) : conns[2].log[j].headers # {}

====
